---------------------------- MODULE Spec2Model ----------------------------
(***************************************************************************)
(* Bash directory boundary enforcement (src/claude/monitor.py).            *)
(*                                                                         *)
(* check_bash_directory_boundary(command, working_directory,               *)
(* approved_directory) is a function of its three arguments and of the     *)
(* symbolic links of the file system.  A string is modelled as the         *)
(* sequence of its characters, a path as the sequence of its components,   *)
(* and one call as a run  start -> tokenized -> classify -> done.  A call  *)
(* ends Allowed, Denied(reason) or Raised(exception): an exception that    *)
(* leaves the function.                                                    *)
(* Library calls are modelled as CPython 3.11 executes them: shlex.split,  *)
(* pathlib.Path, Path.resolve (os.path.realpath followed by a stat that    *)
(* turns ELOOP into RuntimeError; lstat rejects an embedded NUL with       *)
(* ValueError) and PurePath.relative_to.                                   *)
(***************************************************************************)
EXTENDS Naturals, Sequences, FiniteSets

VARIABLES fs,           \* the symbolic links of the file system: path -> target
          command,      \* the command string, a sequence of characters
          wd,           \* working_directory, a sequence of components
          ad,           \* approved_directory, a sequence of components
          pc,           \* position in check_bash_directory_boundary
          tokens,       \* result of shlex.split(command)
          base_command, \* Path(tokens[0]).name
          outcome       \* how the call ended: kind, reason, exception

vars == <<fs, command, wd, ad, pc, tokens, base_command, outcome>>

-----------------------------------------------------------------------------
(* Characters.  The character U+0000 has no TLA+ escape; NUL stands for it. *)

NUL == "NUL"
Slash == "/"
Dash == "-"
Backslash == "\\"
SingleQuote == "'"
DoubleQuote == "\""

\* shlex.whitespace, shlex.quotes, shlex.escape, shlex.escapedquotes (posix)
ShlexWhitespace == {" ", "\t", "\r", "\n"}
ShlexQuotes == {SingleQuote, DoubleQuote}
ShlexEscape == {Backslash}
ShlexEscapedQuotes == {DoubleQuote}

Dot == <<".">>
DotDot == <<".", ".">>

-----------------------------------------------------------------------------
(* The three classification sets of monitor.py.                            *)

FS_MODIFYING_COMMANDS ==
    { <<"m", "k", "d", "i", "r">>,
      <<"t", "o", "u", "c", "h">>,
      <<"c", "p">>,
      <<"m", "v">>,
      <<"r", "m">>,
      <<"r", "m", "d", "i", "r">>,
      <<"l", "n">>,
      <<"i", "n", "s", "t", "a", "l", "l">>,
      <<"t", "e", "e">> }

READ_ONLY_COMMANDS ==
    { <<"c", "a", "t">>,
      <<"l", "s">>,
      <<"h", "e", "a", "d">>,
      <<"t", "a", "i", "l">>,
      <<"l", "e", "s", "s">>,
      <<"m", "o", "r", "e">>,
      <<"w", "h", "i", "c", "h">>,
      <<"w", "h", "o", "a", "m", "i">>,
      <<"p", "w", "d">>,
      <<"e", "c", "h", "o">>,
      <<"p", "r", "i", "n", "t", "f">>,
      <<"e", "n", "v">>,
      <<"p", "r", "i", "n", "t", "e", "n", "v">>,
      <<"d", "a", "t", "e">>,
      <<"w", "c">>,
      <<"s", "o", "r", "t">>,
      <<"u", "n", "i", "q">>,
      <<"d", "i", "f", "f">>,
      <<"f", "i", "l", "e">>,
      <<"s", "t", "a", "t">>,
      <<"d", "u">>,
      <<"d", "f">>,
      <<"t", "r", "e", "e">>,
      <<"r", "e", "a", "l", "p", "a", "t", "h">>,
      <<"d", "i", "r", "n", "a", "m", "e">>,
      <<"b", "a", "s", "e", "n", "a", "m", "e">> }

FIND_MUTATING_ACTIONS ==
    { <<"-", "d", "e", "l", "e", "t", "e">>,
      <<"-", "e", "x", "e", "c">>,
      <<"-", "e", "x", "e", "c", "d", "i", "r">>,
      <<"-", "o", "k">>,
      <<"-", "o", "k", "d", "i", "r">> }

FindName == <<"f", "i", "n", "d">>

-----------------------------------------------------------------------------
(* shlex.split(command): posix mode, whitespace_split, no comment          *)
(* characters.  Lex is the loop of shlex.read_token run over the whole     *)
(* string: i is the next character, st the lexer state (" " between        *)
(* words, "a" inside a word, a quote character, or the escape character),  *)
(* esc the state an escape returns to, tok the token being built, quoted   *)
(* whether it had a quoted part, out the tokens emitted so far.            *)

RECURSIVE Lex(_, _, _, _, _, _, _)
Lex(s, i, st, esc, tok, quoted, out) ==
    IF i > Len(s)
    THEN IF st \in ShlexQuotes
         THEN [ok |-> FALSE, tokens |-> <<>>, error |-> "No closing quotation"]
         ELSE IF st \in ShlexEscape
         THEN [ok |-> FALSE, tokens |-> <<>>, error |-> "No escaped character"]
         ELSE IF st = "a"
         THEN [ok |-> TRUE, tokens |-> Append(out, tok), error |-> "none"]
         ELSE [ok |-> TRUE, tokens |-> out, error |-> "none"]
    ELSE LET c == s[i] IN
         IF st = " "
         THEN IF c \in ShlexWhitespace
              THEN Lex(s, i + 1, " ", esc, tok, quoted, out)
              ELSE IF c \in ShlexEscape
              THEN Lex(s, i + 1, c, "a", tok, quoted, out)
              ELSE IF c \in ShlexQuotes
              THEN Lex(s, i + 1, c, esc, tok, quoted, out)
              ELSE Lex(s, i + 1, "a", esc, <<c>>, quoted, out)
         ELSE IF st \in ShlexQuotes
         THEN IF c = st
              THEN Lex(s, i + 1, "a", esc, tok, TRUE, out)
              ELSE IF c \in ShlexEscape /\ st \in ShlexEscapedQuotes
              THEN Lex(s, i + 1, c, st, tok, TRUE, out)
              ELSE Lex(s, i + 1, st, esc, Append(tok, c), TRUE, out)
         ELSE IF st \in ShlexEscape
         THEN LET kept == IF esc \in ShlexQuotes /\ c # st /\ c # esc
                          THEN Append(tok, st) ELSE tok
              IN Lex(s, i + 1, esc, esc, Append(kept, c), quoted, out)
         ELSE \* st = "a"
              IF c \in ShlexWhitespace
              THEN Lex(s, i + 1, " ", " ", <<>>, FALSE, Append(out, tok))
              ELSE IF c \in ShlexQuotes
              THEN Lex(s, i + 1, c, esc, tok, quoted, out)
              ELSE IF c \in ShlexEscape
              THEN Lex(s, i + 1, c, "a", tok, quoted, out)
              ELSE Lex(s, i + 1, "a", esc, Append(tok, c), quoted, out)

ShlexSplit(s) == Lex(s, 1, " ", " ", <<>>, FALSE, <<>>)

-----------------------------------------------------------------------------
(* pathlib.                                                                *)

startswith(s, c) == Len(s) > 0 /\ s[1] = c

\* str.split("/"): the pieces between slashes, empty pieces included
RECURSIVE SplitFrom(_, _, _, _)
SplitFrom(s, i, cur, out) ==
    IF i > Len(s) THEN Append(out, cur)
    ELSE IF s[i] = Slash THEN SplitFrom(s, i + 1, <<>>, Append(out, cur))
    ELSE SplitFrom(s, i + 1, Append(cur, s[i]), out)

SplitSlash(s) == SplitFrom(s, 1, <<>>, <<>>)

\* Path(s).parts without the root: empty and "." components are dropped,
\* ".." is kept
RECURSIVE DropEmptyAndDot(_)
DropEmptyAndDot(names) ==
    IF names = <<>> THEN <<>>
    ELSE IF Head(names) = <<>> \/ Head(names) = Dot
         THEN DropEmptyAndDot(Tail(names))
         ELSE <<Head(names)>> \o DropEmptyAndDot(Tail(names))

PathParts(s) == DropEmptyAndDot(SplitSlash(s))

\* Path(s).name: the last component, "" when there is none
PathName(s) ==
    LET parts == PathParts(s)
    IN IF parts = <<>> THEN <<>> ELSE parts[Len(parts)]

\* str(path) of an absolute path
RECURSIVE JoinSlash(_)
JoinSlash(parts) ==
    IF parts = <<>> THEN <<>>
    ELSE <<Slash>> \o Head(parts) \o JoinSlash(Tail(parts))

PathStr(parts) == IF parts = <<>> THEN <<Slash>> ELSE JoinSlash(parts)


-----------------------------------------------------------------------------
(* Path.resolve(), non-strict: os.path.realpath, then a stat of the result *)
(* that turns ELOOP into RuntimeError.  links maps the path of each        *)
(* symbolic link to the text readlink returns; every other path is a       *)
(* directory, a file or missing, which realpath does not tell apart.       *)

HasNul(name) == \E k \in 1..Len(name) : name[k] = NUL

Parent(path) == IF path = <<>> THEN <<>> ELSE SubSeq(path, 1, Len(path) - 1)

\* posixpath._joinrealpath(path, rest, strict=False, seen).  path is the
\* resolved prefix, rest the names still to walk, seen the links met so far
\* (mapped to their resolution once known; Unresolved while being followed).
\* Result: ok = FALSE on a symlink loop, with path the unresolved remainder
\* joined on; error = "ValueError" when lstat rejects an embedded NUL.
Unresolved == [resolved |-> FALSE, path |-> <<>>]

RECURSIVE JoinRealpath(_, _, _, _)
JoinRealpath(links, path, rest, seen) ==
    IF rest = <<>>
    THEN [path |-> path, ok |-> TRUE, seen |-> seen, error |-> "none"]
    ELSE LET name == Head(rest)
             more == Tail(rest)
             newpath == Append(path, name)
         IN IF name = <<>> \/ name = Dot
            THEN JoinRealpath(links, path, more, seen)
            ELSE IF name = DotDot
            THEN JoinRealpath(links, Parent(path), more, seen)
            ELSE IF HasNul(name)
            THEN [path |-> newpath \o more, ok |-> FALSE, seen |-> seen,
                  error |-> "ValueError"]
            ELSE IF newpath \notin DOMAIN links
            THEN JoinRealpath(links, newpath, more, seen)
            ELSE IF newpath \in DOMAIN seen
            THEN IF seen[newpath].resolved
                 THEN JoinRealpath(links, seen[newpath].path, more, seen)
                 ELSE [path |-> newpath \o more, ok |-> FALSE, seen |-> seen,
                       error |-> "none"]
            ELSE LET target == links[newpath]
                     marked == [q \in DOMAIN seen \cup {newpath} |->
                                  IF q = newpath THEN Unresolved ELSE seen[q]]
                     inner == JoinRealpath(links,
                                           IF startswith(target, Slash)
                                           THEN <<>> ELSE path,
                                           SplitSlash(target), marked)
                 IN IF ~inner.ok
                    THEN [path |-> inner.path \o more, ok |-> FALSE,
                          seen |-> inner.seen, error |-> inner.error]
                    ELSE JoinRealpath(links, inner.path, more,
                                      [q \in DOMAIN inner.seen |->
                                         IF q = newpath
                                         THEN [resolved |-> TRUE,
                                               path |-> inner.path]
                                         ELSE inner.seen[q]])

NoneSeen == [q \in {} |-> Unresolved]

\* posixpath.normpath of an absolute path, as abspath applies it to
\* realpath's result: lexical, "" and "." dropped, ".." removes a component
RECURSIVE NormFrom(_, _)
NormFrom(names, acc) ==
    IF names = <<>> THEN acc
    ELSE IF Head(names) = <<>> \/ Head(names) = Dot
         THEN NormFrom(Tail(names), acc)
         ELSE IF Head(names) = DotDot
         THEN NormFrom(Tail(names), Parent(acc))
         ELSE NormFrom(Tail(names), Append(acc, Head(names)))

Normpath(names) == NormFrom(names, <<>>)

\* os.stat(path) fails with ELOOP: following the links of path never ends.
\* path is normalised and a link's parent exists, so the kernel's walk meets
\* the same links as realpath's.
StatELoop(links, path) == ~JoinRealpath(links, <<>>, path, NoneSeen).ok

\* Path(names).resolve(): [ok, path] or [~ok, error]
Resolve(links, names) ==
    LET r == JoinRealpath(links, <<>>, names, NoneSeen)
        s == Normpath(r.path)
    IN IF r.error # "none"
       THEN [ok |-> FALSE, path |-> <<>>, error |-> r.error]
       ELSE IF r.ok
       THEN [ok |-> TRUE, path |-> r.path, error |-> "none"]
       ELSE IF \E k \in 1..Len(s) : HasNul(s[k])
       THEN [ok |-> FALSE, path |-> <<>>, error |-> "ValueError"]
       ELSE IF StatELoop(links, s)
       THEN [ok |-> FALSE, path |-> <<>>, error |-> "RuntimeError"]
       ELSE [ok |-> TRUE, path |-> s, error |-> "none"]

\* a containment test that rejects the root itself
relative_to_strict(path, root) ==
    /\ Len(root) < Len(path)
    /\ SubSeq(path, 1, Len(root)) = root

\* resolved.relative_to(resolved_approved) does not raise ValueError:
\* the components of root are a prefix of the components of path
relative_to(path, root) ==
    /\ Len(root) <= Len(path)
    /\ SubSeq(path, 1, Len(root)) = root

-----------------------------------------------------------------------------
(* check_bash_directory_boundary.                                          *)

None == <<"None">>

Allowed == [kind |-> "Allowed", reason |-> None, error |-> "none"]
Denied(reason) == [kind |-> "Denied", reason |-> reason, error |-> "none"]
Raised(error) == [kind |-> "Raised", reason |-> None, error |-> error]

\* an unparseable command refused
UnparsedVerdict_deny == Denied(<<"Unparseable command">>)

\* except ValueError: return True, None
UnparsedVerdict == Allowed

\* base_command in _READ_ONLY_COMMANDS
IsReadOnly(base) == base \in READ_ONLY_COMMANDS

\* base_command == "find"
IsFind(base) == base = FindName

\* str.lower() on the letters of RM
Lower(str) ==
    [k \in 1..Len(str) |->
        IF str[k] = "R" THEN "r" ELSE IF str[k] = "M" THEN "m" ELSE str[k]]

\* a membership test that ignores case
IsFsModifying_caseless(base) == Lower(base) \in FS_MODIFYING_COMMANDS

\* base_command in _FS_MODIFYING_COMMANDS
IsFsModifying(base) == base \in FS_MODIFYING_COMMANDS

\* find treated as mutating whatever its expression
has_mutating_action_always(toks) == TRUE

\* any(t in _FIND_MUTATING_ACTIONS for t in tokens[1:])
has_mutating_action(toks) ==
    \E k \in 2..Len(toks) : toks[k] \in FIND_MUTATING_ACTIONS

\* a classifier without the allow-by-default returns: all but a find query
\* go to the path check
Classify_check_all(base, toks) ==
    IF IsFind(base) /\ ~has_mutating_action(toks) THEN "find_query"
    ELSE "check"

\* lines 85-97: which return the command takes
Classify(base, toks) ==
    IF IsReadOnly(base) THEN "read_only"
    ELSE IF IsFind(base)
         THEN IF has_mutating_action(toks) THEN "check" ELSE "find_query"
         ELSE IF ~IsFsModifying(base) THEN "unchecked" ELSE "check"

\* token.startswith("-")
IsFlag(token) == startswith(token, Dash)

\* relative tokens joined onto the working directory but not canonicalized
ResolveToken_lexical(links, token, cwd) ==
    IF startswith(token, Slash)
    THEN Resolve(links, PathParts(token))
    ELSE [ok |-> TRUE, path |-> cwd \o PathParts(token), error |-> "none"]

\* Path(token).resolve() or (working_directory / token).resolve()
ResolveToken(links, token, cwd) ==
    IF startswith(token, Slash)
    THEN Resolve(links, PathParts(token))
    ELSE Resolve(links, cwd \o PathParts(token))

\* the f-string of the denial
BoundaryViolation(base, token, root) ==
    <<"Directory boundary violation: '">> \o base \o <<"' targets '">> \o token
        \o <<"' which is outside approved directory '">> \o PathStr(root)
        \o <<"'">>

\* for token in tokens[1:]: ... ; return True, None
RECURSIVE CheckTokens(_, _, _, _, _)
CheckTokens(links, base, args, cwd, root) ==
    IF args = <<>> THEN Allowed
    ELSE LET token == Head(args) IN
         IF IsFlag(token)
         THEN CheckTokens(links, base, Tail(args), cwd, root)
         ELSE LET resolved == ResolveToken(links, token, cwd) IN
              IF ~resolved.ok THEN Raised(resolved.error)
              ELSE IF relative_to(resolved.path, root)
              THEN CheckTokens(links, base, Tail(args), cwd, root)
              ELSE Denied(BoundaryViolation(base, token, root))

\* resolved_approved = approved_directory.resolve(), then the loop
PathCheck(links, base, toks, cwd, approved) ==
    LET resolved_approved == Resolve(links, approved) IN
    IF ~resolved_approved.ok THEN Raised(resolved_approved.error)
    ELSE CheckTokens(links, base, Tail(toks), cwd, resolved_approved.path)

-----------------------------------------------------------------------------
(* The calls explored: every command made of an executable word and up to  *)
(* MaxArgs argument words joined by single spaces, in every working        *)
(* directory, approved directory and file system below.                    *)

MaxArgs == 3

A == <<"A">>
o == <<"o">>

\* the first word of a command, as typed
ExeWords ==
    { <<>>,                                     \* nothing
      <<"\t">>,                                  \* a tab
      <<"r", "m">>,                             \* rm
      <<"/", "b", "i", "n", "/", "r", "m">>,    \* /bin/rm
      <<"R", "M">>,                             \* RM
      <<"m", "k", "d", "i", "r">>,              \* mkdir
      <<"c", "a", "t">>,                        \* cat
      <<"f", "i", "n", "d">>,                   \* find
      <<"s", "u", "d", "o", " ", "r", "m">> }   \* sudo rm

\* the later words of a command, as typed
ArgWords ==
    { <<"-", "/", "o">>,                        \* -/o   a flag with path text
      <<"-", "d", "e", "l", "e", "t", "e">>,    \* -delete
      <<".">>,                                  \* .
      <<".", ".", "/", "o">>,                   \* ../o
      <<"/", "o">>,                             \* /o
      <<"/", "A", "x">>,                        \* /Ax   shares a prefix with /A
      <<"x">>,                                  \* x
      <<"p">>,                                  \* p     a symlink loop in /A
      <<"l", "/", "x">>,                        \* l/x   through a link to /o
      <<"x", NUL>>,                             \* x\0
      <<SingleQuote>>,                          \* '     opens a quote
      <<Backslash>> }                           \* \     escapes what follows

RECURSIVE JoinWords(_)
JoinWords(words) ==
    IF words = <<>> THEN <<>>
    ELSE IF Len(words) = 1 THEN Head(words)
    ELSE Head(words) \o <<" ">> \o JoinWords(Tail(words))

Commands ==
    { JoinWords(<<e>> \o args) :
        e \in ExeWords,
        args \in UNION { [1..n -> ArgWords] : n \in 0..MaxArgs } }

WorkingDirs == { <<A>>, <<o>> }

\* /s is a link to /A
ApprovedDirs == { <<A>>, <<<<"s">>>> }

Links ==
    [q \in { <<A, <<"p">>>>, <<A, <<"l">>>>, <<<<"s">>>> } |->
        IF q = <<A, <<"p">>>> THEN <<"p">>
        ELSE IF q = <<A, <<"l">>>> THEN <<"/", "o">>
        ELSE <<"/", "A">>]

Snapshots == { Links }

-----------------------------------------------------------------------------
(* One call.                                                               *)

Init ==
    /\ fs \in Snapshots
    /\ command \in Commands
    /\ wd \in WorkingDirs
    /\ ad \in ApprovedDirs
    /\ pc = "start"
    /\ tokens = <<>>
    /\ base_command = <<>>
    /\ outcome = [kind |-> "Running", reason |-> None, error |-> "none"]

Return(result) ==
    /\ outcome' = result
    /\ pc' = "done"

\* shlex.split raises ValueError: return True, None
TokenizeFails ==
    /\ pc = "start"
    /\ ~ShlexSplit(command).ok
    /\ Return(UnparsedVerdict)
    /\ UNCHANGED <<fs, command, wd, ad, tokens, base_command>>

\* tokens = shlex.split(command)
Tokenize ==
    /\ pc = "start"
    /\ ShlexSplit(command).ok
    /\ tokens' = ShlexSplit(command).tokens
    /\ pc' = "tokenized"
    /\ UNCHANGED <<fs, command, wd, ad, base_command, outcome>>

\* if not tokens: return True, None
ReturnNoTokens ==
    /\ pc = "tokenized"
    /\ tokens = <<>>
    /\ Return(Allowed)
    /\ UNCHANGED <<fs, command, wd, ad, tokens, base_command>>

\* base_command = Path(tokens[0]).name
TakeBaseCommand ==
    /\ pc = "tokenized"
    /\ tokens # <<>>
    /\ base_command' = PathName(tokens[1])
    /\ pc' = "classify"
    /\ UNCHANGED <<fs, command, wd, ad, tokens, outcome>>

\* read-only commands are always allowed
ReturnReadOnly ==
    /\ pc = "classify"
    /\ Classify(base_command, tokens) = "read_only"
    /\ Return(Allowed)
    /\ UNCHANGED <<fs, command, wd, ad, tokens, base_command>>

\* find without a mutating action
ReturnFindQuery ==
    /\ pc = "classify"
    /\ Classify(base_command, tokens) = "find_query"
    /\ Return(Allowed)
    /\ UNCHANGED <<fs, command, wd, ad, tokens, base_command>>

\* neither find nor a filesystem-modifying command
ReturnUnchecked ==
    /\ pc = "classify"
    /\ Classify(base_command, tokens) = "unchecked"
    /\ Return(Allowed)
    /\ UNCHANGED <<fs, command, wd, ad, tokens, base_command>>

\* the path check of lines 99-124
CheckPaths ==
    /\ pc = "classify"
    /\ Classify(base_command, tokens) = "check"
    /\ Return(PathCheck(fs, base_command, tokens, wd, ad))
    /\ UNCHANGED <<fs, command, wd, ad, tokens, base_command>>

Next ==
    \/ TokenizeFails
    \/ Tokenize
    \/ ReturnNoTokens
    \/ TakeBaseCommand
    \/ ReturnReadOnly
    \/ ReturnFindQuery
    \/ ReturnUnchecked
    \/ CheckPaths

Spec == Init /\ [][Next]_vars

-----------------------------------------------------------------------------
(* Vocabulary of the properties, stated apart from the operators above.    *)

Done == pc = "done"

BeginsWith(str, c) == str # <<>> /\ Head(str) = c

\* needle occurs in hay as a contiguous run
Contains(hay, needle) ==
    \E i \in 0..Len(hay) :
        /\ i + Len(needle) <= Len(hay)
        /\ SubSeq(hay, i + 1, i + Len(needle)) = needle

\* the text of a token after its last slash
FinalComponent(tok) ==
    LET slashes == { k \in 1..Len(tok) : tok[k] = Slash }
        last == IF slashes = {} THEN 0
                ELSE CHOOSE k \in slashes : \A j \in slashes : j <= k
    IN SubSeq(tok, last + 1, Len(tok))

Executable == FinalComponent(tokens[1])

Parsed == Done /\ tokens # <<>>

Arguments == 2..Len(tokens)

\* the approved directory in canonical form
CanonicalApproved == Resolve(fs, ad)

\* what a token names: absolute tokens directly, relative ones from wd
Target(tok) ==
    Resolve(fs, (IF BeginsWith(tok, Slash) THEN <<>> ELSE wd) \o SplitSlash(tok))

\* path is root or a descendant of root
Within(path, root) == \E k \in 0..Len(path) : SubSeq(path, 1, k) = root

IsCandidate(tok) == ~BeginsWith(tok, Dash)

ResolvesInside(tok) ==
    /\ CanonicalApproved.ok
    /\ Target(tok).ok
    /\ Within(Target(tok).path, CanonicalApproved.path)

ResolvesOutside(tok) ==
    /\ CanonicalApproved.ok
    /\ Target(tok).ok
    /\ ~Within(Target(tok).path, CanonicalApproved.path)

Unresolvable(tok) == ~Target(tok).ok

HasFindAction == \E k \in Arguments : tokens[k] \in FIND_MUTATING_ACTIONS

IsBlank(str) == \A k \in 1..Len(str) : str[k] \in {" ", "\t", "\r", "\n"}

RmText == <<"r", "m">>
OutsideText == <<"/", "o">>
TraversalText == <<".", ".", "/", "o">>

-----------------------------------------------------------------------------
(* C1: a mutating command with at least one non-flag argument that         *)
(* resolves outside the approved directory (a sibling sharing a string     *)
(* prefix included) is Denied, and the reason names the executable and     *)
(* such an argument.                                                       *)
C1_OutsideIsDenied ==
    (/\ Parsed
     /\ Executable \in FS_MODIFYING_COMMANDS
     /\ \E k \in Arguments : IsCandidate(tokens[k]) /\ ResolvesOutside(tokens[k]))
    => /\ outcome.kind = "Denied"
       /\ Contains(outcome.reason, Executable)
       /\ \E k \in Arguments :
            /\ IsCandidate(tokens[k]) /\ ResolvesOutside(tokens[k])
            /\ Contains(outcome.reason, tokens[k])

(* C2: a command whose executable is in the read-only set is Allowed       *)
(* whatever its arguments, working directory and approved directory.       *)
C2_ReadOnlyAllowed ==
    (Parsed /\ Executable \in READ_ONLY_COMMANDS) => outcome = Allowed

\* cat with an argument outside the approved directory and one that cannot
\* be canonicalized
C2_Witness ==
    /\ Parsed
    /\ Executable \in READ_ONLY_COMMANDS
    /\ \E k \in Arguments : ResolvesOutside(tokens[k])
    /\ \E k \in Arguments : IsCandidate(tokens[k]) /\ Unresolvable(tokens[k])
    /\ outcome = Allowed

(* C3: a mutating command all of whose arguments are flags or resolve to   *)
(* the approved directory or below it is Allowed; a flag never causes a    *)
(* denial whatever path text it carries.                                   *)
C3_InsideIsAllowed ==
    (/\ Parsed
     /\ Executable \in FS_MODIFYING_COMMANDS
     /\ \A k \in Arguments : ~IsCandidate(tokens[k]) \/ ResolvesInside(tokens[k]))
    => outcome = Allowed

\* a flag carrying the text of an outside path, the approved directory
\* itself and a path strictly inside it, in one allowed command
C3_Witness ==
    /\ Parsed
    /\ Executable \in FS_MODIFYING_COMMANDS
    /\ \E k \in Arguments :
         ~IsCandidate(tokens[k]) /\ Contains(tokens[k], OutsideText)
    /\ \E k \in Arguments :
         /\ IsCandidate(tokens[k]) /\ ResolvesInside(tokens[k])
         /\ Target(tokens[k]).path = CanonicalApproved.path
    /\ \E k \in Arguments :
         /\ IsCandidate(tokens[k]) /\ ResolvesInside(tokens[k])
         /\ Target(tokens[k]).path # CanonicalApproved.path
    /\ outcome = Allowed

(* C4: for a mutating command, a relative argument t and the absolute      *)
(* argument W/t get the same verdict; a lone relative argument whose       *)
(* target W/t lies outside the approved directory is Denied.               *)
C4_TraversalEquivalence ==
    (Parsed /\ Executable \in FS_MODIFYING_COMMANDS)
    => \A k \in Arguments :
         LET t == tokens[k]
             absolute == PathStr(wd) \o <<Slash>> \o t
         IN (~BeginsWith(t, Dash) /\ ~BeginsWith(t, Slash))
            => /\ PathCheck(fs, base_command, [tokens EXCEPT ![k] = absolute],
                            wd, ad).kind = outcome.kind
               /\ (Len(tokens) = 2 /\ ResolvesOutside(absolute))
                  => outcome.kind = "Denied"

\* rm ../o in the approved directory: denied, as rm /o is
C4_Witness ==
    /\ Parsed
    /\ Executable \in FS_MODIFYING_COMMANDS
    /\ Len(tokens) = 2
    /\ tokens[2] = TraversalText
    /\ Resolve(fs, wd).ok /\ Resolve(fs, wd).path = CanonicalApproved.path
    /\ outcome.kind = "Denied"
    /\ PathCheck(fs, base_command, <<tokens[1], OutsideText>>, wd, ad).kind
         = "Denied"

(* C5: find without -delete, -exec, -execdir, -ok, -okdir among its        *)
(* arguments is Allowed, also from a working directory and with search     *)
(* paths outside the approved directory.                                   *)
C5_FindQueryAllowed ==
    (Parsed /\ Executable = FindName /\ ~HasFindAction) => outcome = Allowed

\* a find query run outside the approved directory on an outside path
C5_Witness ==
    /\ Parsed
    /\ Executable = FindName
    /\ ~HasFindAction
    /\ ~Within(Resolve(fs, wd).path, CanonicalApproved.path)
    /\ \E k \in Arguments : IsCandidate(tokens[k]) /\ ResolvesOutside(tokens[k])
    /\ \E k \in Arguments : ~IsCandidate(tokens[k])
    /\ outcome = Allowed

(* C6: find with a mutating action is path-checked like a mutating         *)
(* command: find . -delete is Allowed from inside the approved directory   *)
(* and Denied from outside it, and any non-flag argument resolving         *)
(* outside yields Denied.                                                  *)
C6_FindActionChecked ==
    (Parsed /\ Executable = FindName /\ HasFindAction)
    => /\ (\E k \in Arguments :
             IsCandidate(tokens[k]) /\ ResolvesOutside(tokens[k]))
          => outcome.kind = "Denied"
       /\ Tail(tokens) = <<Dot, <<"-", "d", "e", "l", "e", "t", "e">>>>
          => outcome.kind = IF ResolvesInside(Dot) THEN "Allowed" ELSE "Denied"

(* C7: a command that cannot be tokenized (unbalanced quote, trailing      *)
(* backslash) and a blank command are Allowed with no reason, and nothing  *)
(* is raised.                                                              *)
C7_FailOpen ==
    (Done /\ (~ShlexSplit(command).ok \/ IsBlank(command))) => outcome = Allowed

\* an unparseable command naming rm and an outside path
C7_Witness ==
    /\ Done
    /\ ~ShlexSplit(command).ok
    /\ Contains(command, RmText)
    /\ Contains(command, OutsideText)
    /\ outcome = Allowed

(* C8: every call ends Allowed or Denied, never with an exception, and a   *)
(* path-checked call in which an argument cannot be canonicalized ends     *)
(* Denied.                                                                 *)
C8_FailClosed ==
    Done => /\ outcome.kind \in {"Allowed", "Denied"}
            /\ (/\ tokens # <<>>
                /\ \/ Executable \in FS_MODIFYING_COMMANDS
                   \/ Executable = FindName /\ HasFindAction
                /\ \E k \in Arguments :
                     IsCandidate(tokens[k]) /\ Unresolvable(tokens[k]))
               => outcome.kind = "Denied"

(* C9: a command whose executable is neither read-only, nor mutating, nor  *)
(* find is Allowed without any check of its arguments.                     *)
C9_UnrecognizedAllowed ==
    (/\ Parsed
     /\ Executable \notin READ_ONLY_COMMANDS \cup FS_MODIFYING_COMMANDS
     /\ Executable # FindName)
    => outcome = Allowed

\* sudo rm with an argument outside the approved directory
C9_Witness ==
    /\ Parsed
    /\ Executable = <<"s", "u", "d", "o">>
    /\ Len(tokens) >= 3
    /\ tokens[2] = RmText
    /\ \E k \in 3..Len(tokens) : IsCandidate(tokens[k]) /\ ResolvesOutside(tokens[k])
    /\ outcome = Allowed

(* C10: when several non-flag arguments of a path-checked command resolve  *)
(* outside the approved directory, the call is Denied with exactly the     *)
(* boundary-violation reason of the leftmost of them.                      *)
C10_FirstOffenderNamed ==
    LET offenders == IF tokens = <<>> THEN {}
                     ELSE { k \in Arguments :
                              IsCandidate(tokens[k]) /\ ResolvesOutside(tokens[k]) }
        first == CHOOSE k \in offenders : \A j \in offenders : k <= j
    IN (/\ Parsed
        /\ \/ Executable \in FS_MODIFYING_COMMANDS
           \/ Executable = FindName /\ HasFindAction
        /\ Cardinality(offenders) >= 2)
       => outcome = Denied(
            <<"Directory boundary violation: '">> \o Executable
              \o <<"' targets '">> \o tokens[first]
              \o <<"' which is outside approved directory '">>
              \o PathStr(CanonicalApproved.path) \o <<"'">>)

=============================================================================
